---- MODULE Spec2Model ----
(***************************************************************************)
(* Payment gateway: transaction lifecycle engine.                          *)
(*                                                                         *)
(*   Spec      the ledger: accounts, transaction rows, the job queue and   *)
(*             the worker processes that drive a row through the bank call *)
(*   SpecC10   the ledger started in the "concurrent withdrawals" scenario *)
(*   SpecIdem  the idempotency middleware in front of POST /deposits and   *)
(*             POST /withdrawals                                           *)
(*   SpecLock  the distributed lock over the key-value cache               *)
(*                                                                         *)
(* Money is counted in minor units (integers).  Every action is one commit *)
(* of the database or one command of the cache, so every state is a commit *)
(* boundary.                                                               *)
(***************************************************************************)
EXTENDS Integers, FiniteSets, Sequences, TLC

VARIABLES
    \* ---- ledger (database, queue "transactions", workers)
    balance,    \* accounts.balance, per account
    txs,        \* transactions rows, per transaction id
    queue,      \* messages waiting in the queue: [tx, retries]
    wk,         \* per worker process: where it is in process()
    applied,    \* history: how many times a row's amount was applied to a balance
    faults,     \* history: injected failures so far (a lost worker, a raise outside the code's own checks)
    dlq_sent,   \* transactions whose failed job was published to transactions.dlq
    hooks,      \* per transaction: WebhookDelivery rows inserted and delivery jobs enqueued
    webhook_url,\* per account: whether its user has a webhook URL
    \* ---- idempotency middleware (cache keys idempotency:<key>)
    cache,      \* per key: the value stored in the cache
    req,        \* per request: where it is in dispatch()
    rows,       \* transaction rows created by the POST handlers
    invoked,    \* history: handler invocations per key
    succeeded,  \* history: handler invocations that answered < 400, per key
    overran,    \* history: a handler of the key outlived the 60s sentinel
    expired24,  \* history: a COMPLETED record of the key reached its 24h TTL
    firstResp,  \* history: the first response < 400 stored for the key
    \* ---- distributed lock (cache keys lock:<key>)
    store,      \* per lock key: the owner token stored, or NoToken
    inst,       \* per lock instance: its key, ttl and acquired flag
    lease,      \* per lock key: the seconds the key has left in the cache
    valid,      \* history: the instance acquired and its lease neither expired nor was released
    last,       \* the last lock operation and what it returned
    \* ---- bank callback (POST /webhooks/bank-callback)
    cb,         \* the last callback request and the response it got
    \* ---- POST /withdrawals
    api,        \* the last withdrawal request and how create_pending_withdrawal ended
    \* ---- circuit breaker of the bank client
    brk,        \* state, failure_count, success_count, last_failure_time
    now,        \* time.time(), seconds
    inflight,   \* bank calls admitted by can_execute and not yet recorded
    probe,      \* what the last can_execute returned, and which record_* ran last
    bank,       \* the last call of the bank client: admitted?, status, error_code
    \* ---- dead-letter store (failed_tasks) and replay_failed_task
    dlq,        \* per original job id: its failed_tasks rows, replayed_at set?, replay_status
    hf,         \* per handle_failed_task delivery: its position, job id and result
    requeued,   \* per DLQ record id: send_task calls that re-enqueued its job
    rp,         \* per replay_failed_task call: its position, record and result
    \* ---- webhook deliveries (send_webhook_notification)
    wh          \* per delivery: its row, its job's position and retries, the last answer

hookVars   == <<hooks, webhook_url>>
pubVars    == <<dlq_sent, wh>>
ledgerVars == <<balance, txs, queue, wk, applied, faults, hookVars, pubVars>>
idemVars   == <<cache, req, rows, invoked, succeeded, overran, expired24, firstResp>>
lockVars   == <<store, inst, lease, valid, last>>
cbVars     == <<cb>>
apiVars    == <<api>>
brkVars    == <<brk, now, inflight, probe, bank>>
dlqVars    == <<dlq, hf, requeued, rp>>
extVars    == <<cbVars, apiVars, brkVars, dlqVars>>
vars       == <<ledgerVars, idemVars, lockVars, extVars>>

----------------------------------------------------------------------------
(* Bounds of the model *)

NumAccounts == 1     \* accounts
MaxTx       == 2     \* transaction rows that can be created
MaxAmount   == 2     \* amounts are 1..MaxAmount
NumWorkers  == 2     \* worker processes
NumKeys     == 2     \* idempotency keys
MaxReq      == 3     \* POST requests
NumLockKeys == 2     \* lock keys
NumInsts    == 3     \* lock instances
MaxCallbacks == 1    \* bank callbacks received
MaxClock    == 33    \* seconds the breaker's clock runs
MaxInflight == 3     \* bank calls in flight through the breaker
NumWebhooks == 2     \* webhook deliveries
MaxFailureCount == 6 \* failures counted by the breaker
NumDlq      == 2     \* DLQ record ids
MaxDeliveries == 2   \* handle_failed_task deliveries
MaxReplay   == 3     \* replay_failed_task calls
ClockStep   == 15    \* seconds that pass at once beside the worker's jobs
LeaseStep   == 20    \* seconds by which a lock key's lease is seen to shrink
MaxFaults   == 1     \* injected failures: a lost worker, a raising bank call, webhook queueing or review marking

(* Program constants *)

MaxRetries  == 3     \* max_retries of process_deposit / process_withdrawal
WEBHOOK_MAX_RETRIES == 5   \* retry_kwargs of WebhookDeliveryTask
max_attempts == 5    \* WebhookDelivery.max_attempts, the column's default
failure_threshold == 5   \* _bank_circuit_breaker
timeout_seconds   == 30  \* _bank_circuit_breaker
success_threshold == 2   \* _bank_circuit_breaker
MaxLockTtl  == 30    \* DistributedLock.__init__: the cap of self.ttl
DefaultTtl  == 10    \* DistributedLock: default of ttl and of additional_ttl

Accounts == 1..NumAccounts
TxIds    == 1..MaxTx
Amounts  == 1..MaxAmount
Workers  == 1..NumWorkers

OpeningBalance == MaxAmount

----------------------------------------------------------------------------
(* Enumerations: app/core/enums.py *)

TransactionType   == {"DEPOSIT", "WITHDRAWAL"}
TransactionStatus == {"PENDING", "PROCESSING", "SUCCESS", "FAILED", "PENDING_REVIEW"}
BankResponseStatus == {"SUCCESS", "FAILED", "TIMEOUT", "INSUFFICIENT_FUNDS", "UNAVAILABLE"}

Terminal == {"SUCCESS", "FAILED", "PENDING_REVIEW"}

\* a slot of txs that holds no row yet
NoRow == [type |-> "NONE", acct |-> 0, amount |-> 0, status |-> "ABSENT"]

Exists(t) == txs[t].status # "ABSENT"

----------------------------------------------------------------------------
(* Account repository *)

\* AccountRepository.add_balance: the new balance, or an error
add_balance(bal, amount) ==
    IF amount <= 0
    THEN [ok |-> FALSE, err |-> "ValueError", bal |-> bal]
    ELSE [ok |-> TRUE, err |-> "none", bal |-> bal + amount]

\* subtract_balance without its balance check
subtract_balance_unchecked(bal, amount) ==
    IF amount <= 0
    THEN [ok |-> FALSE, err |-> "ValueError", bal |-> bal]
    ELSE [ok |-> TRUE, err |-> "none", bal |-> bal - amount]

\* AccountRepository.subtract_balance: the new balance, or an error
subtract_balance(bal, amount) ==
    IF amount <= 0
    THEN [ok |-> FALSE, err |-> "ValueError", bal |-> bal]
    ELSE IF bal < amount
         THEN [ok |-> FALSE, err |-> "InsufficientBalanceError", bal |-> bal]
         ELSE [ok |-> TRUE, err |-> "none", bal |-> bal - amount]

\* CheckConstraint("balance >= 0") of accounts, evaluated at flush
balance_non_negative(bal) == bal >= 0

\* the balance change of a completion: add_balance for a deposit,
\* subtract_balance for a withdrawal, then the flush under the check constraint
ApplyAmount(type, bal, amount) ==
    LET r == IF type = "DEPOSIT" THEN add_balance(bal, amount)
                                 ELSE subtract_balance(bal, amount)
    IN  IF r.ok /\ ~balance_non_negative(r.bal)
        THEN [ok |-> FALSE, err |-> "IntegrityError", bal |-> bal]
        ELSE r

----------------------------------------------------------------------------
(* Webhook trigger of the transaction services *)

\* no WebhookDelivery row and no delivery job
NoHooks == [rows |-> 0, jobs |-> 0]

\* BaseTransactionService._trigger_webhook_if_configured: nothing without a
\* webhook URL; else a WebhookDelivery row (PENDING, attempt_count 0) is
\* committed and its job enqueued.  When it raises (ok = FALSE) it raised
\* before the row was committed or after it, at the enqueue.
trigger_webhook_if_configured(hasUrl, h, ok) ==
    IF ~hasUrl THEN {h}
    ELSE IF ok THEN {[rows |-> h.rows + 1, jobs |-> h.jobs + 1]}
    ELSE {h, [rows |-> h.rows + 1, jobs |-> h.jobs]}

\* the delivery records after the trigger ran for transaction t
Triggered(t, ok) ==
    {[hooks EXCEPT ![t] = x] :
        x \in trigger_webhook_if_configured(webhook_url[txs[t].acct], hooks[t], ok)}

----------------------------------------------------------------------------
(* Workers *)

\* 1 when the step injects a failure, 0 otherwise
Fault(b) == IF b THEN 1 ELSE 0

IdleWorker == [pc |-> "idle", tx |-> 0, retries |-> 0, err |-> "none",
               result |-> "none", conflict |-> FALSE, locked |-> FALSE]

\* process, line 72: service_class(db) builds the service without a redis
\* client, so self.redis is None in every worker job
WorkerRedis == FALSE

\* complete_deposit / complete_withdrawal: the lock account:<id> is taken
\* only "if self.redis"; otherwise the completion runs under the row lock alone
takes_account_lock(redis) == redis

\* REPEATABLE READ: a commit that writes the account row a or the transaction
\* row t makes every other worker whose completion has already taken its
\* snapshot of that row fail with a serialization error when it writes
MarkConflicts(w, a, t, W) ==
    [x \in Workers |->
        IF x # w /\ W[x].pc = "complete"
           /\ (W[x].tx = t \/ (a # 0 /\ txs[W[x].tx].acct = a))
        THEN [W[x] EXCEPT !.conflict = TRUE]
        ELSE W[x]]

----------------------------------------------------------------------------
(* Initial state *)

LedgerInit ==
    /\ balance = [a \in Accounts |-> OpeningBalance]
    /\ txs = [t \in TxIds |-> NoRow]
    /\ queue = {}
    /\ wk = [w \in Workers |-> IdleWorker]
    /\ applied = [t \in TxIds |-> 0]
    /\ faults = 0
    /\ dlq_sent = {}
    /\ hooks = [t \in TxIds |-> NoHooks]
    /\ webhook_url \in [Accounts -> BOOLEAN]

----------------------------------------------------------------------------
(* POST /deposits and POST /withdrawals: the pending row and its job *)

FreeIds == {t \in TxIds : ~Exists(t)}
NewId   == CHOOSE t \in FreeIds : \A u \in FreeIds : t <= u

\* create_transaction: the row is committed, then the job is enqueued
InsertPending(a, type, amount) ==
    /\ txs' = [txs EXCEPT ![NewId] =
                  [type |-> type, acct |-> a, amount |-> amount, status |-> "PENDING"]]
    /\ queue' = queue \cup {[tx |-> NewId, retries |-> 0]}

\* create_pending_withdrawal without its balance check
create_pending_withdrawal_unchecked(bal, amount) ==
    [ok |-> TRUE, err |-> "none"]

\* WithdrawalService.create_pending_withdrawal: whether the row is created
create_pending_withdrawal(bal, amount) ==
    IF bal < amount
    THEN [ok |-> FALSE, err |-> "InsufficientBalanceError"]
    ELSE [ok |-> TRUE, err |-> "none"]

\* no withdrawal was requested yet
NoRequest == [acct |-> 0, amount |-> 0, err |-> "none"]

\* DepositService.create_pending_deposit behind create_deposit
CreateDeposit(a, amount) ==
    /\ FreeIds # {}
    /\ InsertPending(a, "DEPOSIT", amount)
    /\ UNCHANGED <<balance, wk, applied, faults, hookVars, pubVars, idemVars, lockVars, extVars>>

\* WithdrawalService.create_pending_withdrawal behind create_withdrawal:
\* InsufficientBalanceError when the balance is below the amount
CreateWithdrawal(a, amount) ==
    LET r == create_pending_withdrawal(balance[a], amount) IN
    /\ FreeIds # {}
    /\ IF ~r.ok
       THEN UNCHANGED <<txs, queue>>
       ELSE InsertPending(a, "WITHDRAWAL", amount)
    /\ api' = [acct |-> a, amount |-> amount, err |-> r.err]
    /\ UNCHANGED <<balance, wk, applied, faults, hookVars, pubVars, idemVars, lockVars, cbVars, brkVars, dlqVars>>

----------------------------------------------------------------------------
(* Base transaction service *)

\* BaseTransactionService.update_status: the row with its status overwritten
update_status(row, status) == [row EXCEPT !.status = status]

\* mark_pending_review that forgets to set the status
mark_pending_review_noop(row) == row

\* BaseTransactionService.mark_pending_review: the row set to PENDING_REVIEW
mark_pending_review(row) == [row EXCEPT !.status = "PENDING_REVIEW"]

\* fail_deposit / fail_withdrawal that parks the row for review
fail_transaction_review(row) == [row EXCEPT !.status = "PENDING_REVIEW"]

\* fail_deposit / fail_withdrawal: the row set to FAILED, the balance untouched
fail_transaction(row) == [row EXCEPT !.status = "FAILED"]

----------------------------------------------------------------------------
(* The worker: GenericTransactionProcessor.process, one step per commit *)

\* a worker takes a message of the queue (late ack: it holds it until Ack)
Pick(w) ==
    /\ wk[w].pc = "idle"
    /\ \E m \in queue :
          /\ queue' = queue \ {m}
          /\ wk' = [wk EXCEPT ![w] =
                       [IdleWorker EXCEPT !.pc = "start", !.tx = m.tx,
                                          !.retries = m.retries]]
    /\ UNCHANGED <<balance, txs, applied, faults, hookVars, pubVars, idemVars, lockVars, extVars>>

\* process, lines 70-73: service.update_status(tx_id, PROCESSING)
Start(w) ==
    /\ wk[w].pc = "start"
    /\ LET t == wk[w].tx IN
       IF ~Exists(t)
       THEN /\ wk' = [wk EXCEPT ![w].pc = "exc", ![w].err = "not_found"]
            /\ UNCHANGED txs
       ELSE /\ txs' = [txs EXCEPT ![t] = update_status(txs[t], "PROCESSING")]
            /\ wk' = MarkConflicts(w, 0, t, [wk EXCEPT ![w].pc = "bank"])
    /\ UNCHANGED <<balance, queue, applied, faults, hookVars, pubVars, idemVars, lockVars, extVars>>

\* process that takes TIMEOUT for a permanent failure
classify_timeout_permanent(resp) ==
    CASE resp = "SUCCESS" -> "success"
      [] resp = "UNAVAILABLE" -> "transient"
      [] resp = "RAISE" -> "exception"
      [] OTHER -> "permanent"

\* process, lines 86-98: the branch taken on bank_response.status (and the
\* except clause when the call raised)
classify(resp) ==
    CASE resp = "SUCCESS" -> "success"
      [] resp \in {"TIMEOUT", "UNAVAILABLE"} -> "transient"
      [] resp = "RAISE" -> "exception"
      [] OTHER -> "permanent"

\* process, lines 76-98: the bank answers (or the call raises) and the answer
\* is classified.  SUCCESS opens the completion (its first read of the row);
\* TIMEOUT and UNAVAILABLE raise; every other answer fails the transaction,
\* after which the webhook is queued (hookOk) or queueing it raises.
ProcessResponse(w, resp, hookOk) ==
    /\ wk[w].pc = "bank"
    /\ LET t == wk[w].tx IN
       CASE classify(resp) = "success" ->
              /\ wk' = [wk EXCEPT ![w].pc = "complete", ![w].conflict = FALSE,
                                  ![w].locked = takes_account_lock(WorkerRedis)]
              /\ UNCHANGED <<txs, hooks>>
         [] classify(resp) = "transient" ->
              /\ wk' = [wk EXCEPT ![w].pc = "exc", ![w].err = "transient"]
              /\ UNCHANGED <<txs, hooks>>
         [] classify(resp) = "exception" ->
              /\ wk' = [wk EXCEPT ![w].pc = "exc", ![w].err = "bank_exception"]
              /\ UNCHANGED <<txs, hooks>>
         [] OTHER ->
              /\ hookOk \/ webhook_url[txs[t].acct]
              /\ hooks' \in Triggered(t, hookOk)
              /\ txs' = [txs EXCEPT ![t] = fail_transaction(txs[t])]
              /\ wk' = MarkConflicts(w, 0, t,
                          IF hookOk
                          THEN [wk EXCEPT ![w].pc = "done", ![w].result = "FAILED"]
                          ELSE [wk EXCEPT ![w].pc = "exc", ![w].err = "webhook"])
    /\ faults' = faults + Fault(resp = "RAISE" \/ (classify(resp) = "permanent" /\ ~hookOk))
    /\ faults' <= MaxFaults
    /\ UNCHANGED <<balance, queue, applied, webhook_url, pubVars, idemVars, lockVars,
                   cbVars, apiVars, dlqVars>>

\* the bank call of process with the bank's answer taken as given, whatever
\* the breaker of the worker process holds
Bank(w, resp, hookOk) ==
    /\ ProcessResponse(w, resp, hookOk)
    /\ UNCHANGED brkVars

\* _complete_deposit_locked / _complete_withdrawal_locked: the account row is
\* read FOR UPDATE, the amount applied, the row set to SUCCESS and both are
\* committed together; then the webhook is queued (hookOk) or queueing raises,
\* which the except clause answers with a rollback of nothing and a re-raise.
Complete(w, hookOk) ==
    /\ wk[w].pc = "complete"
    /\ LET t == wk[w].tx
           a == txs[t].acct
           r == ApplyAmount(txs[t].type, balance[a], txs[t].amount)
       IN
       IF wk[w].conflict
       THEN /\ wk' = [wk EXCEPT ![w].pc = "exc", ![w].err = "SerializationFailure",
                                ![w].conflict = FALSE]
            /\ UNCHANGED <<balance, txs, applied, hooks>>
       ELSE IF ~r.ok
       THEN /\ wk' = [wk EXCEPT ![w].pc = "exc", ![w].err = r.err]
            /\ UNCHANGED <<balance, txs, applied, hooks>>
       ELSE /\ hookOk \/ webhook_url[a]
            /\ hooks' \in Triggered(t, hookOk)
            /\ balance' = [balance EXCEPT ![a] = r.bal]
            /\ txs' = [txs EXCEPT ![t] = update_status(txs[t], "SUCCESS")]
            /\ applied' = [applied EXCEPT ![t] = @ + 1]
            /\ wk' = MarkConflicts(w, a, t,
                        IF hookOk
                        THEN [wk EXCEPT ![w].pc = "done", ![w].result = "SUCCESS"]
                        ELSE [wk EXCEPT ![w].pc = "exc", ![w].err = "webhook"])
    /\ faults' = faults + Fault(~hookOk /\ ~wk[w].conflict
                                 /\ ApplyAmount(txs[wk[w].tx].type, balance[txs[wk[w].tx].acct],
                                                txs[wk[w].tx].amount).ok)
    /\ faults' <= MaxFaults
    /\ UNCHANGED <<queue, webhook_url, pubVars, idemVars, lockVars, extVars>>

\* the state Celery gives a task run of process_deposit / process_withdrawal
\* (autoretry_for Exception, max_retries 3): SUCCESS when the run returned,
\* RETRY when it raised with retries left, FAILURE when it raised without
task_state(raised, retries) ==
    IF ~raised THEN "SUCCESS"
    ELSE IF retries < MaxRetries THEN "RETRY" ELSE "FAILURE"

\* DLQTask.on_failure, called for a run that ended in FAILURE: the job is
\* sent to the DLQ when request.retries >= max_retries
on_failure(state, retries) == state = "FAILURE" /\ retries >= MaxRetries

\* _handle_exception and _mark_for_review: NOT_FOUND ends the job; with
\* retries left the exception is re-raised and the job is published again with
\* retries + 1; otherwise the row is marked PENDING_REVIEW (reviewOk) or marking
\* it raises, which is logged and swallowed
HandleException(w, reviewOk) ==
    /\ wk[w].pc = "exc"
    /\ LET t == wk[w].tx IN
       IF wk[w].err = "not_found"
       THEN /\ wk' = [wk EXCEPT ![w].pc = "done", ![w].result = "NOT_FOUND"]
            /\ UNCHANGED <<txs, queue>>
       ELSE IF wk[w].retries >= MaxRetries
       THEN /\ txs' = IF reviewOk /\ Exists(t)
                      THEN [txs EXCEPT ![t] = mark_pending_review(txs[t])]
                      ELSE txs
            /\ wk' = MarkConflicts(w, 0, IF reviewOk THEN t ELSE 0,
                        [wk EXCEPT ![w].pc = "done", ![w].result = "PENDING_REVIEW"])
            /\ UNCHANGED queue
       ELSE /\ queue' = queue \cup {[tx |-> t, retries |-> wk[w].retries + 1]}
            /\ wk' = [wk EXCEPT ![w] = IdleWorker]
            /\ UNCHANGED txs
    /\ LET raised == wk[w].err # "not_found" /\ wk[w].retries < MaxRetries IN
       dlq_sent' = IF on_failure(task_state(raised, wk[w].retries), wk[w].retries)
                   THEN dlq_sent \cup {wk[w].tx}
                   ELSE dlq_sent
    /\ UNCHANGED wh
    /\ faults' = faults + Fault(~reviewOk /\ wk[w].err # "not_found"
                                 /\ wk[w].retries >= MaxRetries)
    /\ faults' <= MaxFaults
    /\ UNCHANGED <<balance, applied, hookVars, idemVars, lockVars, extVars>>

\* the task returned: its message is acknowledged (task_acks_late)
Ack(w) ==
    /\ wk[w].pc = "done"
    /\ wk' = [wk EXCEPT ![w] = IdleWorker]
    /\ UNCHANGED <<balance, txs, queue, applied, faults, hookVars, pubVars, idemVars, lockVars, extVars>>

\* the worker process is lost before the acknowledgement: the broker delivers
\* the message again (task_acks_late, task_reject_on_worker_lost)
WorkerLost(w) ==
    /\ wk[w].pc # "idle"
    /\ faults < MaxFaults
    /\ faults' = faults + 1
    /\ queue' = queue \cup {[tx |-> wk[w].tx, retries |-> wk[w].retries]}
    /\ wk' = [wk EXCEPT ![w] = IdleWorker]
    /\ UNCHANGED <<balance, txs, applied, hookVars, pubVars, idemVars, lockVars, extVars>>

BankAnswers == BankResponseStatus \cup {"RAISE"}

WorkerStep(w) ==
    \/ Pick(w)
    \/ Start(w)
    \/ \E resp \in BankAnswers, hookOk \in BOOLEAN : Bank(w, resp, hookOk)
    \/ \E hookOk \in BOOLEAN : Complete(w, hookOk)
    \/ \E reviewOk \in BOOLEAN : HandleException(w, reviewOk)
    \/ Ack(w)
    \/ WorkerLost(w)

----------------------------------------------------------------------------
(* Idempotency service: app/core/services/idempotency_service.py *)

Keys == 1..NumKeys
Reqs == 1..MaxReq

\* no value under idempotency:<key>
NoEntry == [status |-> "none", body |-> 0, code |-> 0]
\* the PROCESSING sentinel (TTL 60s)
Sentinel == [status |-> "processing", body |-> 0, code |-> 0]
\* no response
NoResp == [body |-> 0, code |-> 0]

\* acquire_lock with a plain SET instead of SET NX
acquire_lock_overwrite(c, k) ==
    [ok |-> TRUE, cache |-> [c EXCEPT ![k] = Sentinel]]

\* IdempotencyService.acquire_lock: SET NX of the sentinel; true iff it was set
acquire_lock(c, k) ==
    IF c[k].status = "none"
    THEN [ok |-> TRUE, cache |-> [c EXCEPT ![k] = Sentinel]]
    ELSE [ok |-> FALSE, cache |-> c]

\* IdempotencyService.check_existing: the value under the key
check_existing(c, k) == c[k]

\* release_lock that deletes nothing
release_lock_skipped(c, k) == c

\* IdempotencyService.release_lock: DEL of the key, whatever it holds
release_lock(c, k) == [c EXCEPT ![k] = NoEntry]

\* save_response that stores nothing
save_response_dropped(c, k, body, code) == c

\* IdempotencyService.save_response: SET of the COMPLETED record (TTL 24h)
save_response(c, k, body, code) ==
    [c EXCEPT ![k] = [status |-> "completed", body |-> body, code |-> code]]

(* The transactions table as the POST handlers see it *)

\* the column value of a row created without an idempotency key (NULL)
NoKey == 0

\* INSERT under the unique partial index on idempotency_key (NOT NULL only)
insert_row(R, ikey, k) ==
    IF ikey # NoKey /\ \E x \in R : x.ikey = ikey
    THEN [ok |-> FALSE, rows |-> R, id |-> 0]
    ELSE [ok |-> TRUE,
          rows |-> R \cup {[id |-> Cardinality(R) + 1, ikey |-> ikey, key |-> k]},
          id |-> Cardinality(R) + 1]

\* create_deposit / create_withdrawal -> create_pending_deposit /
\* create_pending_withdrawal: the handlers pass no idempotency_key, the row
\* is stored with the column NULL
create_pending(R, k) == insert_row(R, NoKey, k)

NewReq == [pc |-> "new", key |-> 0, body |-> 0, code |-> 0,
           retryAfter |-> 0, echo |-> 0, arrived |-> "none",
           ranHandler |-> FALSE, late |-> FALSE]

\* the 409 without its Retry-After header
conflict_response_no_retry(k) == [body |-> 0, code |-> 409, retryAfter |-> 0, echo |-> k]

\* dispatch, lines 83-94: 409 with Retry-After: 5 and the key echoed
conflict_response(k) == [body |-> 0, code |-> 409, retryAfter |-> 5, echo |-> k]

\* dispatch, lines 65-73: the stored response, the key echoed in its headers
cached_response(existing, k) ==
    [body |-> existing.body, code |-> existing.code, retryAfter |-> 0, echo |-> k]

IdemInit ==
    /\ cache = [k \in Keys |-> NoEntry]
    /\ req = [r \in Reqs |-> NewReq]
    /\ rows = {}
    /\ invoked = [k \in Keys |-> 0]
    /\ succeeded = [k \in Keys |-> 0]
    /\ overran = [k \in Keys |-> FALSE]
    /\ expired24 = [k \in Keys |-> FALSE]
    /\ firstResp = [k \in Keys |-> NoResp]

\* the requests of key k whose handler is running
Running(k) == {r \in Reqs : req[r].key = k /\ req[r].pc \in {"handler", "enqueue"}}

(* IdempotencyMiddleware.dispatch *)

\* dispatch, lines 51-53: a POST with Idempotency-Key k arrives and tries the
\* sentinel; with it the handler is called, without it the key is looked up
Dispatch(r, k) ==
    /\ req[r].pc = "new"
    /\ LET a == acquire_lock(cache, k)
           isLate == firstResp[k] # NoResp /\ ~expired24[k]
       IN
       /\ cache' = a.cache
       /\ IF a.ok
          THEN /\ req' = [req EXCEPT ![r] = [NewReq EXCEPT !.pc = "handler", !.key = k,
                                                     !.ranHandler = TRUE, !.late = isLate]]
               /\ invoked' = [invoked EXCEPT ![k] = @ + 1]
          ELSE /\ req' = [req EXCEPT ![r] = [NewReq EXCEPT !.pc = "check", !.key = k,
                                                     !.arrived = cache[k].status,
                                                     !.late = isLate]]
               /\ UNCHANGED invoked
    /\ UNCHANGED <<rows, succeeded, overran, expired24, firstResp, ledgerVars, lockVars, extVars>>

\* dispatch, lines 55-94: the sentinel was not acquired: a COMPLETED record is
\* answered from the cache, anything else with 409 and Retry-After
CheckExisting(r) ==
    /\ req[r].pc = "check"
    /\ LET existing == check_existing(cache, req[r].key)
           resp == IF existing.status = "completed"
                   THEN cached_response(existing, req[r].key)
                   ELSE conflict_response(req[r].key)
       IN
       req' = [req EXCEPT ![r] = [@ EXCEPT !.pc = "done", !.body = resp.body,
                                           !.code = resp.code,
                                           !.retryAfter = resp.retryAfter,
                                           !.echo = resp.echo]]
    /\ UNCHANGED <<cache, rows, invoked, succeeded, overran, expired24, firstResp,
                   ledgerVars, lockVars, extVars>>

\* dispatch, lines 115-151 after a handler that ended with status >= 400 or
\* raised: the key is released
FinishFailed(r, code) ==
    /\ cache' = release_lock(cache, req[r].key)
    /\ req' = [req EXCEPT ![r].pc = "done", ![r].body = 0, ![r].code = code]
    /\ UNCHANGED <<succeeded, firstResp>>

\* dispatch, lines 96-139 after a handler that answered 202: the response is
\* stored under the key
FinishAccepted(r, body) ==
    LET k == req[r].key IN
    /\ cache' = save_response(cache, k, body, 202)
    /\ req' = [req EXCEPT ![r].pc = "done", ![r].body = body, ![r].code = 202]
    /\ succeeded' = [succeeded EXCEPT ![k] = @ + 1]
    /\ firstResp' = IF firstResp[k] = NoResp
                    THEN [firstResp EXCEPT ![k] = [body |-> body, code |-> 202]]
                    ELSE firstResp

\* create_transaction, lines 85-88: the handler creates its pending row and
\* commits ("row"), or is refused with 400 before it ("refuse"), or raises
\* ("raise")
HandlerCreate(r, outcome) ==
    /\ req[r].pc = "handler"
    /\ LET ins == create_pending(rows, req[r].key) IN
       CASE outcome = "row" /\ ins.ok ->
              /\ rows' = ins.rows
              /\ req' = [req EXCEPT ![r].pc = "enqueue", ![r].body = ins.id]
              /\ UNCHANGED <<cache, succeeded, firstResp>>
         [] outcome = "refuse" ->
              /\ FinishFailed(r, 400)
              /\ UNCHANGED rows
         [] OTHER ->
              /\ FinishFailed(r, 500)
              /\ UNCHANGED rows
    /\ UNCHANGED <<invoked, overran, expired24, ledgerVars, lockVars, extVars>>

\* create_transaction, lines 90-121: the job is enqueued and 202 answered, or
\* enqueueing raises and 500 is answered with the row already committed
HandlerEnqueue(r, ok) ==
    /\ req[r].pc = "enqueue"
    /\ IF ok THEN FinishAccepted(r, req[r].body) ELSE FinishFailed(r, 500)
    /\ UNCHANGED <<rows, invoked, overran, expired24, ledgerVars, lockVars, extVars>>

\* the sentinel reaches its TTL (PROCESSING_LOCK_TTL)
ExpireSentinel(k) ==
    /\ cache[k].status = "processing"
    /\ cache' = [cache EXCEPT ![k] = NoEntry]
    /\ overran' = [overran EXCEPT ![k] = @ \/ Running(k) # {}]
    /\ UNCHANGED <<req, rows, invoked, succeeded, expired24, firstResp, ledgerVars, lockVars, extVars>>

\* the COMPLETED record reaches its TTL (idempotency_key_ttl_hours)
ExpireCompleted(k) ==
    /\ cache[k].status = "completed"
    /\ cache' = [cache EXCEPT ![k] = NoEntry]
    /\ expired24' = [expired24 EXCEPT ![k] = TRUE]
    /\ UNCHANGED <<req, rows, invoked, succeeded, overran, firstResp, ledgerVars, lockVars, extVars>>

NextIdem ==
    \/ \E r \in Reqs, k \in Keys : Dispatch(r, k)
    \/ \E r \in Reqs : CheckExisting(r)
    \/ \E r \in Reqs, outcome \in {"row", "refuse", "raise"} : HandlerCreate(r, outcome)
    \/ \E r \in Reqs, ok \in BOOLEAN : HandlerEnqueue(r, ok)
    \/ \E k \in Keys : ExpireSentinel(k)
    \/ \E k \in Keys : ExpireCompleted(k)

----------------------------------------------------------------------------
(* Distributed lock: app/infrastructure/cache/distributed_lock.py *)

LockKeys == 1..NumLockKeys
Insts    == 1..NumInsts

\* no value under lock:<key>
NoToken == 0

\* the ttl and additional_ttl values callers pass: the default and one above
\* the cap
TtlRequests == {DefaultTtl, MaxLockTtl + 1}

\* DistributedLock.__init__: self.ttl = min(ttl, 30)
capped_ttl(ttl) == IF ttl < MaxLockTtl THEN ttl ELSE MaxLockTtl

\* DistributedLock.extend: nothing unless acquired; then the script
\* "if GET key == token then EXPIRE key additional_ttl else 0"
extend(st, ls, k, token, acquired, additional_ttl) ==
    IF acquired /\ st[k] = token
    THEN [ok |-> TRUE, lease |-> [ls EXCEPT ![k] = additional_ttl]]
    ELSE [ok |-> FALSE, lease |-> ls]

\* DistributedLock.__init__: lock_identifier = uuid4(), unique per instance
Token(i) == i

\* _try_acquire_once with a plain SET instead of SET NX
try_acquire_once_overwrite(st, k, token) ==
    [ok |-> TRUE, store |-> [st EXCEPT ![k] = token]]

\* DistributedLock._try_acquire_once: SET key token NX EX ttl
try_acquire_once(st, k, token) ==
    IF st[k] = NoToken
    THEN [ok |-> TRUE, store |-> [st EXCEPT ![k] = token]]
    ELSE [ok |-> FALSE, store |-> st]

\* release that deletes the key without comparing the token
release_unfenced(st, k, token, acquired) ==
    IF ~acquired
    THEN [ok |-> FALSE, store |-> st]
    ELSE [ok |-> st[k] # NoToken, store |-> [st EXCEPT ![k] = NoToken]]

\* DistributedLock.release: nothing unless acquired; then the script
\* "if GET key == token then DEL key else 0"
release(st, k, token, acquired) ==
    IF ~acquired
    THEN [ok |-> FALSE, store |-> st]
    ELSE IF st[k] = token
         THEN [ok |-> TRUE, store |-> [st EXCEPT ![k] = NoToken]]
         ELSE [ok |-> FALSE, store |-> st]

NoOp == [op |-> "none", inst |-> 0, ret |-> FALSE, held |-> FALSE]

\* an instance that is not constructed yet
NoInst == [key |-> 0, ttl |-> 0, acquired |-> FALSE]

LockInit ==
    /\ store = [k \in LockKeys |-> NoToken]
    /\ inst = [i \in Insts |-> NoInst]
    /\ lease = [k \in LockKeys |-> 0]
    /\ valid = [i \in Insts |-> FALSE]
    /\ last = NoOp

\* DistributedLock.__init__: the instance gets its key and its capped ttl,
\* acquired = False
Construct(i, k, ttl) ==
    /\ inst[i] = NoInst
    /\ inst' = [inst EXCEPT ![i] = [key |-> k, ttl |-> capped_ttl(ttl), acquired |-> FALSE]]
    /\ last' = [op |-> "init", inst |-> i, ret |-> FALSE, held |-> FALSE]
    /\ UNCHANGED <<store, lease, valid, ledgerVars, idemVars, extVars>>

\* DistributedLock.acquire (non-blocking)
Acquire(i) ==
    /\ inst[i] # NoInst
    /\ LET r == try_acquire_once(store, inst[i].key, Token(i)) IN
           /\ store' = r.store
           /\ inst' = [inst EXCEPT ![i].acquired = r.ok]
           /\ lease' = IF r.ok THEN [lease EXCEPT ![inst[i].key] = inst[i].ttl] ELSE lease
           /\ valid' = [valid EXCEPT ![i] = @ \/ r.ok]
           /\ last' = [op |-> "acquire", inst |-> i, ret |-> r.ok, held |-> inst[i].acquired]
           /\ UNCHANGED <<ledgerVars, idemVars, extVars>>

\* DistributedLock.release
Release(i) ==
    /\ inst[i] # NoInst
    /\ LET r == release(store, inst[i].key, Token(i), inst[i].acquired) IN
           /\ store' = r.store
           /\ inst' = [inst EXCEPT ![i].acquired = FALSE]
           /\ lease' = IF r.ok THEN [lease EXCEPT ![inst[i].key] = 0] ELSE lease
           /\ valid' = [j \in Insts |->
                           valid[j] /\ ~(store[inst[j].key] = Token(j)
                                         /\ r.store[inst[j].key] # Token(j))]
           /\ last' = [op |-> "release", inst |-> i, ret |-> r.ok, held |-> inst[i].acquired]
           /\ UNCHANGED <<ledgerVars, idemVars, extVars>>

\* DistributedLock.extend
Extend(i, additional_ttl) ==
    /\ inst[i] # NoInst
    /\ LET r == extend(store, lease, inst[i].key, Token(i), inst[i].acquired, additional_ttl) IN
           /\ lease' = r.lease
           /\ last' = [op |-> "extend", inst |-> i, ret |-> r.ok, held |-> inst[i].acquired]
           /\ UNCHANGED <<store, inst, valid, ledgerVars, idemVars, extVars>>

\* LeaseStep seconds pass for a key that has more than that left
Elapse(k) ==
    /\ lease[k] > LeaseStep
    /\ lease' = [lease EXCEPT ![k] = @ - LeaseStep]
    /\ last' = [op |-> "elapse", inst |-> 0, ret |-> FALSE, held |-> FALSE]
    /\ UNCHANGED <<store, inst, valid, ledgerVars, idemVars, extVars>>

\* the lease of the key reaches its TTL: the cache drops the key
Expire(k) ==
    /\ store[k] # NoToken
    /\ store' = [store EXCEPT ![k] = NoToken]
    /\ lease' = [lease EXCEPT ![k] = 0]
    /\ valid' = [j \in Insts |-> valid[j] /\ ~(inst[j].key = k)]
    /\ last' = [op |-> "expire", inst |-> 0, ret |-> FALSE, held |-> FALSE]
    /\ UNCHANGED <<inst, ledgerVars, idemVars, extVars>>

NextLock ==
    \/ \E i \in Insts, k \in LockKeys, ttl \in TtlRequests : Construct(i, k, ttl)
    \/ \E i \in Insts, additional_ttl \in TtlRequests : Extend(i, additional_ttl)
    \/ \E k \in LockKeys : Elapse(k)
    \/ \E i \in Insts : Acquire(i)
    \/ \E i \in Insts : Release(i)
    \/ \E k \in LockKeys : Expire(k)

----------------------------------------------------------------------------
(* Bank callback: app/api/v1/webhooks.py, app/core/security.py *)

\* MAX_TIMESTAMP_DIFF, seconds
MAX_TIMESTAMP_DIFF == 300

\* settings.bank_webhook_secret, and a secret that is not the bank's
BankSecret == "bank"
Secrets    == {BankSecret, "other"}

\* now - payload.timestamp, seconds: on and beyond both edges of the window
Drifts == {-(MAX_TIMESTAMP_DIFF + 1), -MAX_TIMESTAMP_DIFF, 0,
           MAX_TIMESTAMP_DIFF, MAX_TIMESTAMP_DIFF + 1}

Abs(x) == IF x < 0 THEN -x ELSE x

\* the request body: the transaction and the status the bank reports
Bodies == [tx : TxIds, status : BankResponseStatus]

\* the body with the reported status changed after it was signed
Tamper(body) ==
    [body EXCEPT !.status = IF @ = "SUCCESS" THEN "FAILED" ELSE "SUCCESS"]

\* generate_webhook_signature: HMAC-SHA256 of the payload under the secret,
\* taken as an ideal MAC (distinct inputs give distinct digests)
generate_webhook_signature(payload, secret) == <<secret, payload>>

\* verify_webhook_signature that accepts every signature
verify_webhook_signature_any(payload, signature, secret) == TRUE

\* verify_webhook_signature: compare_digest(signature, HMAC(secret, payload))
verify_webhook_signature(payload, signature, secret) ==
    signature = generate_webhook_signature(payload, secret)

NoCallback == [n |-> 0, code |-> 0, secret |-> "none", tampered |-> FALSE, drift |-> 0]

CallbackInit == cb = NoCallback

\* bank_callback: body is the received body, signed is the body the sender
\* signed with secret; drift is now - payload.timestamp
BankCallback(body, signed, secret, drift, hookOk) ==
    LET t   == body.tx
        sig == generate_webhook_signature(signed, secret)
        a   == txs[t].acct
        r   == ApplyAmount(txs[t].type, balance[a], txs[t].amount)
        reply(code) == [n |-> cb.n + 1, code |-> code, secret |-> secret,
                        tampered |-> (signed # body), drift |-> drift]
    IN
    /\ cb.n < MaxCallbacks
    /\ IF Abs(drift) > MAX_TIMESTAMP_DIFF
       THEN /\ cb' = reply(400)
            /\ UNCHANGED <<balance, txs, applied, wk, faults, hooks>>
       ELSE IF ~verify_webhook_signature(body, sig, BankSecret)
       THEN /\ cb' = reply(401)
            /\ UNCHANGED <<balance, txs, applied, wk, faults, hooks>>
       ELSE IF ~Exists(t)
       THEN /\ cb' = reply(404)
            /\ UNCHANGED <<balance, txs, applied, wk, faults, hooks>>
       ELSE IF body.status = "SUCCESS" /\ ~r.ok
       THEN /\ cb' = reply(500)
            /\ UNCHANGED <<balance, txs, applied, wk, faults, hooks>>
       ELSE /\ IF body.status = "SUCCESS"
               THEN /\ balance' = [balance EXCEPT ![a] = r.bal]
                    /\ txs' = [txs EXCEPT ![t] = update_status(txs[t], "SUCCESS")]
                    /\ applied' = [applied EXCEPT ![t] = @ + 1]
                    /\ wk' = MarkConflicts(0, a, t, wk)
               ELSE /\ txs' = [txs EXCEPT ![t] = fail_transaction(txs[t])]
                    /\ wk' = MarkConflicts(0, 0, t, wk)
                    /\ UNCHANGED <<balance, applied>>
            /\ hookOk \/ webhook_url[a]
            /\ hooks' \in Triggered(t, hookOk)
            /\ cb' = reply(IF hookOk THEN 200 ELSE 500)
            /\ faults' = faults + Fault(~hookOk)
            /\ faults' <= MaxFaults
    /\ UNCHANGED <<queue, webhook_url, pubVars, idemVars, lockVars, apiVars, brkVars, dlqVars>>

----------------------------------------------------------------------------
(* Circuit breaker: app/infrastructure/external/circuit_breaker.py *)

CircuitState == {"CLOSED", "OPEN", "HALF_OPEN"}

\* last_failure_time is None
NoFailure == -1

\* the bank client was not called yet
NoBankCall == [n |-> 0, called |-> FALSE, status |-> "NONE", error_code |-> "NONE"]

\* CircuitBreaker.__init__
BreakerInit ==
    /\ brk = [state |-> "CLOSED", failure_count |-> 0, success_count |-> 0,
              last_failure_time |-> NoFailure]
    /\ now = 0
    /\ inflight = 0
    /\ probe = [k |-> 0, ret |-> FALSE, rec |-> "none"]
    /\ bank = NoBankCall

\* _should_attempt_reset that waits for more than timeout_seconds
should_attempt_reset_late(b, t) ==
    b.last_failure_time # NoFailure /\ t - b.last_failure_time > timeout_seconds

\* CircuitBreaker._should_attempt_reset
should_attempt_reset(b, t) ==
    b.last_failure_time # NoFailure /\ t - b.last_failure_time >= timeout_seconds

\* _transition_to_open that leaves success_count as it is
transition_to_open_keeps_successes(b) == [b EXCEPT !.state = "OPEN"]

\* _transition_to_open
transition_to_open(b) == [b EXCEPT !.state = "OPEN", !.success_count = 0]

\* _transition_to_half_open
transition_to_half_open(b) ==
    [b EXCEPT !.state = "HALF_OPEN", !.failure_count = 0, !.success_count = 0]

\* _transition_to_closed
transition_to_closed(b) ==
    [b EXCEPT !.state = "CLOSED", !.failure_count = 0, !.success_count = 0]

\* CircuitBreaker.can_execute: the answer and the breaker after it
can_execute(b, t) ==
    CASE b.state = "CLOSED" -> [ret |-> TRUE, brk |-> b]
      [] b.state = "OPEN" ->
            IF should_attempt_reset(b, t)
            THEN [ret |-> TRUE, brk |-> transition_to_half_open(b)]
            ELSE [ret |-> FALSE, brk |-> b]
      [] OTHER -> [ret |-> TRUE, brk |-> b]

\* record_success that leaves the failures counted in CLOSED
record_success_keeps_count(b) ==
    IF b.state = "HALF_OPEN"
    THEN LET c == [b EXCEPT !.success_count = @ + 1] IN
         IF c.success_count >= success_threshold THEN transition_to_closed(c) ELSE c
    ELSE b

\* CircuitBreaker.record_success
record_success(b) ==
    IF b.state = "HALF_OPEN"
    THEN LET c == [b EXCEPT !.success_count = @ + 1] IN
         IF c.success_count >= success_threshold THEN transition_to_closed(c) ELSE c
    ELSE [b EXCEPT !.failure_count = 0]

\* record_failure that keeps a HALF_OPEN breaker HALF_OPEN
record_failure_stays_half_open(b, t) ==
    LET c == [b EXCEPT !.failure_count = @ + 1, !.last_failure_time = t] IN
    IF c.state = "CLOSED" /\ c.failure_count >= failure_threshold
    THEN transition_to_open(c)
    ELSE c

\* CircuitBreaker.record_failure
record_failure(b, t) ==
    LET c == [b EXCEPT !.failure_count = @ + 1, !.last_failure_time = t] IN
    IF c.state = "HALF_OPEN" THEN transition_to_open(c)
    ELSE IF c.state = "CLOSED" /\ c.failure_count >= failure_threshold
         THEN transition_to_open(c)
         ELSE c

\* circuit_breaker_decorator: the call asks can_execute and, admitted, runs
CanExecute ==
    LET r == can_execute(brk, now) IN
    /\ inflight < MaxInflight
    /\ brk' = r.brk
    /\ probe' = [probe EXCEPT !.k = 1 - @, !.ret = r.ret]
    /\ inflight' = IF r.ret THEN inflight + 1 ELSE inflight
    /\ UNCHANGED <<now, bank, ledgerVars, idemVars, lockVars, cbVars, apiVars, dlqVars>>

\* circuit_breaker_decorator: an admitted call returned
RecordSuccess ==
    /\ inflight > 0
    /\ brk' = record_success(brk)
    /\ inflight' = inflight - 1
    /\ probe' = [probe EXCEPT !.rec = "success"]
    /\ UNCHANGED <<now, bank, ledgerVars, idemVars, lockVars, cbVars, apiVars, dlqVars>>

\* circuit_breaker_decorator: an admitted call raised
RecordFailure ==
    /\ inflight > 0
    /\ brk.failure_count < MaxFailureCount
    /\ brk' = record_failure(brk, now)
    /\ inflight' = inflight - 1
    /\ probe' = [probe EXCEPT !.rec = "failure"]
    /\ UNCHANGED <<now, bank, ledgerVars, idemVars, lockVars, cbVars, apiVars, dlqVars>>

\* a second passes
Tick ==
    /\ now < MaxClock
    /\ now' = now + 1
    /\ UNCHANGED <<brk, inflight, probe, bank, ledgerVars, idemVars, lockVars, cbVars, apiVars, dlqVars>>

(* Bank client behind the breaker: app/infrastructure/external/bank_simulator.py *)

\* what the bank does with an admitted call: _should_succeed,
\* _generate_error_scenario, or an exception inside the try block
BankOutcomes == {"SUCCESS", "UNAVAILABLE", "TIMEOUT", "INSUFFICIENT_FUNDS", "RAISE"}

\* _generate_error_scenario: the error_code of each answer
error_code_of(outcome) ==
    CASE outcome = "UNAVAILABLE" -> "BANK_UNAVAILABLE"
      [] outcome = "TIMEOUT" -> "BANK_TIMEOUT"
      [] outcome = "INSUFFICIENT_FUNDS" -> "INSUFFICIENT_FUNDS"
      [] OTHER -> "NONE"

\* process_deposit that counts every answer other than SUCCESS as a failure
process_bank_call_strict(b, t, outcome) ==
    LET c == can_execute(b, t) IN
    IF ~c.ret
    THEN [called |-> FALSE, status |-> "UNAVAILABLE",
          error_code |-> "CIRCUIT_BREAKER_OPEN", brk |-> c.brk]
    ELSE [called |-> TRUE, status |-> outcome, error_code |-> error_code_of(outcome),
          brk |-> IF outcome = "SUCCESS" THEN record_success(c.brk)
                  ELSE record_failure(c.brk, t)]

\* BankSimulator.process_deposit / process_withdrawal: rejected by the
\* breaker the answer is synthesized; admitted, SUCCESS records a success,
\* UNAVAILABLE, TIMEOUT and an exception record a failure, and
\* INSUFFICIENT_FUNDS records nothing
process_bank_call(b, t, outcome) ==
    LET c == can_execute(b, t) IN
    IF ~c.ret
    THEN [called |-> FALSE, status |-> "UNAVAILABLE",
          error_code |-> "CIRCUIT_BREAKER_OPEN", brk |-> c.brk]
    ELSE [called |-> TRUE, status |-> outcome, error_code |-> error_code_of(outcome),
          brk |-> CASE outcome = "SUCCESS" -> record_success(c.brk)
                    [] outcome \in {"UNAVAILABLE", "TIMEOUT", "RAISE"} -> record_failure(c.brk, t)
                    [] OTHER -> c.brk]

\* the breaker a bank call of the type asks: process_deposit and
\* process_withdrawal both use the module's one _bank_circuit_breaker
breaker_of(type) == brk

\* process, lines 76-98 with the bank client of the worker process: the call
\* goes through the breaker and its answer is classified
CallBank(w, outcome, hookOk) ==
    LET r == process_bank_call(breaker_of(txs[wk[w].tx].type), now, outcome) IN
    /\ ProcessResponse(w, r.status, hookOk)
    /\ r.brk.failure_count <= MaxFailureCount
    /\ brk' = r.brk
    /\ bank' = [n |-> 1 - bank.n, called |-> r.called, status |-> r.status,
                error_code |-> r.error_code]
    /\ UNCHANGED <<now, inflight, probe>>

\* ClockStep seconds pass
Wait ==
    /\ now + ClockStep <= MaxClock
    /\ now' = now + ClockStep
    /\ UNCHANGED <<brk, inflight, probe, bank, ledgerVars, idemVars, lockVars, cbVars, apiVars, dlqVars>>

NextBreaker == CanExecute \/ RecordSuccess \/ RecordFailure \/ Tick

----------------------------------------------------------------------------
(* Specification of the ledger *)

----------------------------------------------------------------------------
(* Dead-letter store and replay: app/workers/tasks/dlq_tasks.py *)

DlqIds == 1..NumDlq
Calls  == 1..MaxReplay

\* no row in failed_tasks under the id
NoRecord == [rows |-> 0, replayed_at |-> FALSE, replay_status |-> "NONE"]

Deliveries == 1..MaxDeliveries

\* a handle_failed_task delivery that has not started
NoDelivery == [pc |-> "new", task |-> 0, status |-> "none", added |-> FALSE]

\* INSERT into failed_tasks without the unique index on task_id
insert_failed_task_not_unique(n) == [ok |-> TRUE, rows |-> n + 1]

\* INSERT into failed_tasks under the unique index on task_id: with a row of
\* the task_id there the commit raises IntegrityError
insert_failed_task(n) ==
    IF n >= 1 THEN [ok |-> FALSE, rows |-> n] ELSE [ok |-> TRUE, rows |-> n + 1]

\* a replay_failed_task call that has not started
NoCall == [pc |-> "new", rec |-> 0, status |-> "none", sent |-> FALSE]

DlqInit ==
    /\ dlq = [d \in DlqIds |-> NoRecord]
    /\ hf = [h \in Deliveries |-> NoDelivery]
    /\ requeued = [d \in DlqIds |-> 0]
    /\ rp = [c \in Calls |-> NoCall]

\* handle_failed_task, lines 24-37: the delivery looks for a row of the
\* task_id in its own session; with one it answers duplicate
HandleLoad(h, d) ==
    /\ hf[h].pc = "new"
    /\ hf' = [hf EXCEPT ![h] =
                 IF dlq[d].rows >= 1
                 THEN [pc |-> "done", task |-> d, status |-> "duplicate", added |-> FALSE]
                 ELSE [pc |-> "insert", task |-> d, status |-> "none", added |-> FALSE]]
    /\ UNCHANGED <<dlq, requeued, rp, ledgerVars, idemVars, lockVars, cbVars, apiVars, brkVars>>

\* handle_failed_task, lines 39-76: the row is added and committed and the
\* delivery answers stored, or the commit raises, is rolled back and the
\* delivery answers error
HandleInsert(h) ==
    /\ hf[h].pc = "insert"
    /\ LET ins == insert_failed_task(dlq[hf[h].task].rows) IN
       /\ dlq' = [dlq EXCEPT ![hf[h].task].rows = ins.rows]
       /\ hf' = [hf EXCEPT ![h].pc = "done",
                           ![h].status = IF ins.ok THEN "stored" ELSE "error",
                           ![h].added = ins.ok]
    /\ UNCHANGED <<requeued, rp, ledgerVars, idemVars, lockVars, cbVars, apiVars, brkVars>>

\* replay_failed_task, lines 87-97: the call reads the record in its own
\* session; no record -> error, replayed_at set -> already_replayed
ReplayLoad(c, d) ==
    /\ rp[c].pc = "new"
    /\ rp' = [rp EXCEPT ![c] =
                 IF dlq[d].rows = 0
                 THEN [pc |-> "done", rec |-> d, status |-> "error", sent |-> FALSE]
                 ELSE IF dlq[d].replayed_at
                      THEN [pc |-> "done", rec |-> d, status |-> "already_replayed", sent |-> FALSE]
                      ELSE [pc |-> "send", rec |-> d, status |-> "none", sent |-> FALSE]]
    /\ UNCHANGED <<dlq, hf, requeued, ledgerVars, idemVars, lockVars, cbVars, apiVars, brkVars>>

\* replay_failed_task, lines 99-116: send_task puts the original job on the
\* "transactions" queue, or raises and the call answers error
ReplaySend(c, ok) ==
    /\ rp[c].pc = "send"
    /\ IF ok
       THEN /\ requeued' = [requeued EXCEPT ![rp[c].rec] = @ + 1]
            /\ rp' = [rp EXCEPT ![c].pc = "mark", ![c].sent = TRUE]
       ELSE /\ rp' = [rp EXCEPT ![c].pc = "done", ![c].status = "error"]
            /\ UNCHANGED requeued
    /\ UNCHANGED <<dlq, hf, ledgerVars, idemVars, lockVars, cbVars, apiVars, brkVars>>

\* replay_failed_task, lines 118-141: replayed_at and replay_status "QUEUED"
\* are committed and the call answers replayed, or the commit raises, is
\* rolled back and the call answers error
ReplayMark(c, ok) ==
    /\ rp[c].pc = "mark"
    /\ IF ok
       THEN /\ dlq' = [dlq EXCEPT ![rp[c].rec].replayed_at = TRUE,
                                  ![rp[c].rec].replay_status = "QUEUED"]
            /\ rp' = [rp EXCEPT ![c].pc = "done", ![c].status = "replayed"]
       ELSE /\ rp' = [rp EXCEPT ![c].pc = "done", ![c].status = "error"]
            /\ UNCHANGED dlq
    /\ UNCHANGED <<hf, requeued, ledgerVars, idemVars, lockVars, cbVars, apiVars, brkVars>>

NextDlq ==
    \/ \E h \in Deliveries, d \in DlqIds : HandleLoad(h, d)
    \/ \E h \in Deliveries : HandleInsert(h)
    \/ \E c \in Calls, d \in DlqIds : ReplayLoad(c, d)
    \/ \E c \in Calls, ok \in BOOLEAN : ReplaySend(c, ok)
    \/ \E c \in Calls, ok \in BOOLEAN : ReplayMark(c, ok)

----------------------------------------------------------------------------
(* Webhook delivery: app/workers/tasks/webhook_tasks.py *)

WebhookIds == 1..NumWebhooks

\* client.post raised httpx.RequestError: no response (network error, timeout)
NetworkError == 0

\* the try block raised an exception that is neither httpx.RequestError nor
\* httpx.HTTPStatusError
UnexpectedError == 1

\* what an attempt's POST ends with: a response of the status code, or one
\* of the two kinds of exception
PostAnswers == {200, 404, 408, 429, 500, NetworkError, UnexpectedError}

\* no row in webhook_deliveries and no job
NoWebhook == [status |-> "NONE", attempt_count |-> 0, pc |-> "none", retries |-> 0,
              state |-> "NONE", answer |-> NetworkError, dlq_queue |-> "none"]

WebhookInit == wh = [d \in WebhookIds |-> NoWebhook]

\* send_webhook_notification that raises for every status code from 400 up
post_result_raise_4xx(answer, retries) ==
    IF answer = UnexpectedError THEN [status |-> "FAILED", raised |-> FALSE]
    ELSE IF answer = NetworkError \/ (400 <= answer /\ answer < 600)
    THEN [status |-> IF retries >= WEBHOOK_MAX_RETRIES - 1 THEN "FAILED" ELSE "PENDING",
          raised |-> TRUE]
    ELSE IF 200 <= answer /\ answer < 300
    THEN [status |-> "SUCCESS", raised |-> FALSE]
    ELSE [status |-> "FAILED", raised |-> FALSE]

\* send_webhook_notification, lines 57-137: what the attempt leaves in the
\* row's status and whether the task raises.  5xx goes through
\* raise_for_status into the handler of RequestError / HTTPStatusError, which
\* stores FAILED when request.retries >= WEBHOOK_MAX_RETRIES - 1 and PENDING
\* otherwise and re-raises; 2xx stores SUCCESS, any other status code stores
\* FAILED, and both return; any other exception stores FAILED and returns
post_result(answer, retries) ==
    IF answer = UnexpectedError THEN [status |-> "FAILED", raised |-> FALSE]
    ELSE IF answer = NetworkError \/ (500 <= answer /\ answer < 600)
    THEN [status |-> IF retries >= WEBHOOK_MAX_RETRIES - 1 THEN "FAILED" ELSE "PENDING",
          raised |-> TRUE]
    ELSE IF 200 <= answer /\ answer < 300
    THEN [status |-> "SUCCESS", raised |-> FALSE]
    ELSE [status |-> "FAILED", raised |-> FALSE]

\* the state Celery gives a run of send_webhook_notification (autoretry_for
\* RequestError and HTTPStatusError, retry_kwargs max_retries 5): Task.retry
\* publishes the job again with retries + 1 unless that exceeds max_retries
webhook_task_state(raised, retries) ==
    IF ~raised THEN "SUCCESS"
    ELSE IF retries + 1 > WEBHOOK_MAX_RETRIES THEN "FAILURE" ELSE "RETRY"

\* DLQTask.on_failure, lines 50-54: the queue of the DLQ message
dlq_queue_of(isWebhookTask) == IF isWebhookTask THEN "webhooks.dlq" ELSE "transactions.dlq"

\* _trigger_webhook_if_configured, lines 100-105: the row is created PENDING
\* with attempt_count 0 and its job is enqueued
EnqueueWebhook(d) ==
    /\ wh[d].pc = "none"
    /\ wh' = [wh EXCEPT ![d] = [NoWebhook EXCEPT !.status = "PENDING", !.pc = "queued"]]
    /\ UNCHANGED <<balance, txs, queue, wk, applied, faults, hookVars, dlq_sent,
                   idemVars, lockVars, extVars>>

\* send_webhook_notification, lines 37-48: the attempt loads the row, adds
\* one to attempt_count, sets SENDING and commits
SendBegin(d) ==
    /\ wh[d].pc = "queued"
    /\ wh' = [wh EXCEPT ![d].attempt_count = @ + 1, ![d].status = "SENDING",
                        ![d].pc = "post"]
    /\ UNCHANGED <<balance, txs, queue, wk, applied, faults, hookVars, dlq_sent,
                   idemVars, lockVars, extVars>>

\* send_webhook_notification, lines 57-137, and what Celery does with the
\* run: the POST is answered, the row is updated and committed, and the task
\* returns, is published again with retries + 1, or fails and on_failure
\* sends it to the DLQ
SendPost(d, answer) ==
    /\ wh[d].pc = "post"
    /\ LET r == post_result(answer, wh[d].retries)
           st == webhook_task_state(r.raised, wh[d].retries)
       IN
       wh' = [wh EXCEPT ![d].status = r.status,
                        ![d].answer = answer,
                        ![d].state = st,
                        ![d].pc = IF st = "RETRY" THEN "queued" ELSE "done",
                        ![d].retries = IF st = "RETRY" THEN @ + 1 ELSE @,
                        ![d].dlq_queue = IF on_failure(st, wh[d].retries)
                                         THEN dlq_queue_of(TRUE) ELSE @]
    /\ UNCHANGED <<balance, txs, queue, wk, applied, faults, hookVars, dlq_sent,
                   idemVars, lockVars, extVars>>

NextWebhook ==
    \/ \E d \in WebhookIds : EnqueueWebhook(d)
    \/ \E d \in WebhookIds : SendBegin(d)
    \/ \E d \in WebhookIds, answer \in PostAnswers : SendPost(d, answer)

ExtInit == CallbackInit /\ api = NoRequest /\ BreakerInit /\ DlqInit /\ WebhookInit

Init == LedgerInit /\ IdemInit /\ LockInit /\ ExtInit

Next ==
    \/ \E a \in Accounts, amount \in Amounts : CreateDeposit(a, amount)
    \/ \E a \in Accounts, amount \in Amounts : CreateWithdrawal(a, amount)
    \/ \E w \in Workers : WorkerStep(w)

Spec == Init /\ [][Next]_vars

SpecIdem == Init /\ [][NextIdem]_vars

SpecLock == Init /\ [][NextLock]_vars

SpecBreaker == Init /\ [][NextBreaker]_vars

SpecDlq == Init /\ [][NextDlq]_vars

SpecWebhook == Init /\ [][NextWebhook]_vars

\* one worker process, its jobs and its breaker
NextBank ==
    \/ \E a \in Accounts, amount \in Amounts : CreateDeposit(a, amount)
    \/ \E a \in Accounts, amount \in Amounts : CreateWithdrawal(a, amount)
    \/ Pick(1)
    \/ Start(1)
    \/ \E outcome \in BankOutcomes, hookOk \in BOOLEAN : CallBank(1, outcome, hookOk)
    \/ Complete(1, TRUE)
    \/ HandleException(1, TRUE)
    \/ Ack(1)
    \/ Wait

SpecBank == Init /\ [][NextBank]_vars

\* the bank's callbacks beside the workers' first attempts (no retries)
NextCallback ==
    \/ \E a \in Accounts, amount \in Amounts : CreateDeposit(a, amount)
    \/ \E a \in Accounts, amount \in Amounts : CreateWithdrawal(a, amount)
    \/ \E w \in Workers :
          \/ Pick(w)
          \/ Start(w)
          \/ Bank(w, "SUCCESS", TRUE)
          \/ Complete(w, TRUE)
          \/ Ack(w)
    \/ \E body \in Bodies, secret \in Secrets, drift \in Drifts, hookOk \in BOOLEAN :
          \E signed \in {body, Tamper(body)} :
             BankCallback(body, signed, secret, drift, hookOk)

SpecCallback == Init /\ [][NextCallback]_vars

----------------------------------------------------------------------------
(* The "concurrent withdrawals" scenario: balance 100.00, two pending       *)
(* withdrawals of 80.00 already queued, the bank answers SUCCESS to every   *)
(* call and nothing fails outside the code's own checks.                    *)

LedgerInitC10 ==
    /\ balance = [a \in Accounts |-> 100]
    /\ txs = [t \in TxIds |->
                IF t <= 2
                THEN [type |-> "WITHDRAWAL", acct |-> 1, amount |-> 80, status |-> "PENDING"]
                ELSE NoRow]
    /\ queue = {[tx |-> 1, retries |-> 0], [tx |-> 2, retries |-> 0]}
    /\ wk = [w \in Workers |-> IdleWorker]
    /\ applied = [t \in TxIds |-> 0]
    /\ faults = 0
    /\ dlq_sent = {}
    /\ hooks = [t \in TxIds |-> NoHooks]
    /\ webhook_url \in [Accounts -> BOOLEAN]

InitC10 == LedgerInitC10 /\ IdemInit /\ LockInit /\ ExtInit

NextC10 ==
    \E w \in Workers :
        \/ Pick(w)
        \/ Start(w)
        \/ Bank(w, "SUCCESS", TRUE)
        \/ Complete(w, TRUE)
        \/ HandleException(w, TRUE)
        \/ Ack(w)

SpecC10 == InitC10 /\ [][NextC10]_vars

----------------------------------------------------------------------------
(* Properties of the ledger *)

RECURSIVE SumOver(_, _)
\* the sum of f[t] over the finite set S
SumOver(f, S) ==
    IF S = {} THEN 0
    ELSE LET t == CHOOSE x \in S : TRUE IN f[t] + SumOver(f, S \ {t})

\* what a row contributes to the balance of account a
Contribution(a) ==
    [t \in TxIds |->
        IF txs[t].acct = a /\ txs[t].status = "SUCCESS"
        THEN IF txs[t].type = "DEPOSIT" THEN txs[t].amount ELSE 0 - txs[t].amount
        ELSE 0]

\* C1: at every commit boundary the balance of every account is its opening
\* balance plus its SUCCESS deposits minus its SUCCESS withdrawals, and no
\* row's amount has been applied more than once.
C1_BalanceIsLedger ==
    /\ \A a \in Accounts :
          balance[a] = OpeningBalance + SumOver(Contribution(a), TxIds)
    /\ \A t \in TxIds : applied[t] <= 1

\* the worker w takes a step of its own (it is not lost)
Moves(w) == wk'[w].pc # wk[w].pc /\ wk'[w].pc # "idle"

\* C2, rejection: a withdrawal completion that finds less than its amount on
\* the account raises InsufficientBalanceError (or the serialization error of
\* a concurrent commit) and changes neither a balance nor a row.
C2_Rejects(w) ==
    LET t == wk[w].tx IN
    (/\ wk[w].pc = "complete"
     /\ txs[t].type = "WITHDRAWAL"
     /\ txs[t].amount > balance[txs[t].acct]
     /\ Moves(w))
    => /\ wk'[w].pc = "exc"
       /\ wk'[w].err \in {"InsufficientBalanceError", "SerializationFailure"}
       /\ UNCHANGED <<balance, txs, applied>>

\* C2: the committed balance of every account is never negative, and a
\* withdrawal completion whose amount exceeds the balance is rejected and
\* changes nothing.
C2_BalanceNonNegative ==
    /\ [](\A a \in Accounts : balance[a] >= 0)
    /\ [][\A w \in Workers : C2_Rejects(w)]_vars

\* C2 witness: a withdrawal completion was rejected for insufficient balance
C2_Witness ==
    \E w \in Workers :
        /\ wk[w].pc = "exc"
        /\ wk[w].err = "InsufficientBalanceError"
        /\ txs[wk[w].tx].type = "WITHDRAWAL"
        /\ txs[wk[w].tx].amount > balance[txs[wk[w].tx].acct]

AllowedStatusChange ==
    {<<"PENDING", "PROCESSING">>, <<"PROCESSING", "SUCCESS">>,
     <<"PROCESSING", "FAILED">>, <<"PROCESSING", "PENDING_REVIEW">>}

\* C3: every change of a row's status is PENDING -> PROCESSING or PROCESSING ->
\* SUCCESS, FAILED or PENDING_REVIEW (PROCESSING -> PROCESSING changes
\* nothing); a terminal status never changes again.
C3_StatusTransitions ==
    [][\A t \in TxIds :
          (Exists(t) /\ txs'[t].status # txs[t].status)
          => <<txs[t].status, txs'[t].status>> \in AllowedStatusChange]_vars

\* C4: a job that starts on a row in a terminal status returns without a bank
\* call and leaves the row and the balances as they were.
C4_TerminalJobIsNoOp ==
    [][\A w \in Workers :
          (/\ wk[w].pc = "start"
           /\ txs[wk[w].tx].status \in Terminal
           /\ Moves(w))
          => /\ wk'[w].pc = "done"
             /\ UNCHANGED <<balance, txs>>]_vars

C10Done == queue = {} /\ \A w \in Workers : wk[w].pc \in {"idle", "done"}

\* C10: with balance 100 and two pending withdrawals of 80 whose bank calls
\* return SUCCESS, at most one is ever SUCCESS and, when both jobs have ended,
\* exactly one is SUCCESS, the balance is 20 and the other is FAILED or
\* PENDING_REVIEW.
C10_OneWithdrawalWins ==
    /\ \A a \in Accounts : balance[a] \in {100, 20}
    /\ ~(txs[1].status = "SUCCESS" /\ txs[2].status = "SUCCESS")
    /\ C10Done =>
         \E t \in {1, 2} :
            /\ txs[t].status = "SUCCESS"
            /\ txs[3 - t].status \in {"FAILED", "PENDING_REVIEW"}
            /\ balance[1] = 20

\* C10 witness: both jobs have ended, one withdrawal won and the other was
\* rejected at completion until its retries ran out
C10_Witness ==
    /\ C10Done
    /\ txs[1].status = "SUCCESS"
    /\ txs[2].status = "PENDING_REVIEW"
    /\ balance[1] = 20

----------------------------------------------------------------------------
(* Properties of the idempotency middleware *)

RowsOf(k) == {x \in rows : x.key = k}

\* C5: for every idempotency key, at most one transaction row is ever created
\* by the requests that carry it.
C5_OneRowPerKey == \A k \in Keys : Cardinality(RowsOf(k)) <= 1

\* the key's handlers kept to the 60s sentinel and its record is within 24h
InWindow(k) == ~overran[k] /\ ~expired24[k]

\* C6 as stated: provided every handler finishes within the sentinel's TTL,
\* the handler is invoked at most once per key during the 24h window.
C6_AtMostOneInvocation == \A k \in Keys : InWindow(k) => invoked[k] <= 1

\* C6 as amended: provided every handler finishes within the sentinel's TTL,
\* at most one invocation per key is running or has answered < 400 during the
\* 24h window: the handler is invoked again only after every earlier
\* invocation ended with a status >= 400 or raised.
C6_AtMostOneLiveInvocation ==
    \A k \in Keys : InWindow(k) => succeeded[k] + Cardinality(Running(k)) <= 1

\* C6 witness: a second invocation followed a failed one and answered 202,
\* with no handler outliving the sentinel
C6_Witness ==
    \E k \in Keys : InWindow(k) /\ invoked[k] = 2 /\ succeeded[k] = 1

\* a later request of the key answers the first stored response, without the
\* handler and without a row
ReplaysFirst(r) ==
    /\ req[r].pc \notin {"handler", "enqueue"}
    /\ ~req[r].ranHandler
    /\ req[r].pc = "done" =>
          /\ req[r].body = firstResp[req[r].key].body
          /\ req[r].code = firstResp[req[r].key].code

----------------------------------------------------------------------------
(* Properties of the distributed lock *)

\* the step is release() called on instance i
IsRelease(i) == last'.op = "release" /\ last'.inst = i

\* the step is acquire() called on instance i
IsAcquire(i) == last'.op = "acquire" /\ last'.inst = i

\* C8: release() deletes the key only when it holds the instance's own token;
\* called by an instance whose lease expired and was taken over, or called
\* again, it returns false and leaves the current holder's lease in place.
C8_ReleaseIsFenced ==
    [][\A i \in Insts :
          IsRelease(i) =>
             LET k == inst[i].key IN
             /\ store'[k] # store[k] => store[k] = Token(i)
             /\ \A j \in LockKeys : j # k => store'[j] = store[j]
             /\ (store[k] # Token(i) \/ ~inst[i].acquired)
                   => (~last'.ret /\ store' = store)
             /\ ~inst'[i].acquired]_vars

\* C8 witness: an instance that had acquired released after its lease expired
\* and another instance took the key: false is returned, the other's lease stays
C8_Witness ==
    /\ last.op = "release" /\ last.held /\ ~last.ret
    /\ store[inst[last.inst].key] \notin {NoToken, Token(last.inst)}
    /\ \E j \in Insts : j # last.inst /\ valid[j] /\ inst[j].key = inst[last.inst].key

\* the instances that hold an unexpired, unreleased lease on key k
Holders(k) == {j \in Insts : inst[j].key = k /\ valid[j]}

\* C9: on every key at most one instance holds an unexpired, unreleased
\* lease; acquire returns false exactly while some instance holds such a lease
\* on the same key, whatever is held on other keys; a release that returns
\* true leaves the key free, so that the next acquire on it succeeds.
C9_MutualExclusion ==
    /\ [](\A k \in LockKeys : Cardinality(Holders(k)) <= 1)
    /\ [][\A i \in Insts :
             /\ IsAcquire(i) =>
                   /\ last'.ret <=> Holders(inst[i].key) = {}
                   /\ last'.ret => Holders(inst[i].key)' = {i}
                   /\ \A k \in LockKeys :
                         k # inst[i].key => Holders(k)' = Holders(k)
             /\ (IsRelease(i) /\ last'.ret) =>
                   /\ Holders(inst[i].key) = {i}
                   /\ Holders(inst[i].key)' = {}]_vars

\* C9 witness: an acquire was refused on a held key while another key is
\* held by a third instance
C9_Witness ==
    /\ last.op = "acquire" /\ ~last.ret
    /\ \E j \in Insts : j # last.inst /\ Holders(inst[last.inst].key) = {j}
    /\ \E k \in LockKeys : k # inst[last.inst].key /\ Holders(k) # {}

----------------------------------------------------------------------------
(* Properties of the ledger under bank callbacks *)

\* C11: the balance of an account changes only in a step that moves one of
\* its transactions from PROCESSING to SUCCESS, and an amount is applied only
\* to a transaction whose status is PROCESSING.
C11_BalanceChangesOnCompletionOnly ==
    [][/\ \A a \in Accounts :
            balance'[a] # balance[a] =>
               \E t \in TxIds : /\ Exists(t) /\ txs[t].acct = a
                                /\ txs[t].status = "PROCESSING"
                                /\ txs'[t].status = "SUCCESS"
       /\ \A t \in TxIds :
            applied'[t] # applied[t] => txs[t].status = "PROCESSING"]_vars

\* the step is a bank callback
IsCallback == cb'.n = cb.n + 1

\* the callback just answered was signed by the bank over the body received
Authentic(c) == c.secret = BankSecret /\ ~c.tampered

\* the callback just answered carried a timestamp within the window
Fresh(c) == Abs(c.drift) <= MAX_TIMESTAMP_DIFF

\* C15: a bank callback changes a status or a balance only if its signature
\* is the HMAC of the received body under the shared secret and its timestamp
\* is within 300 s of now; a stale or future timestamp is answered 400, a
\* signature mismatch (on a timestamp within the window, which is checked
\* first) is answered 401, and both leave the ledger unchanged.
C15_CallbackAuthenticated ==
    [][IsCallback =>
          /\ (<<balance, txs>>' # <<balance, txs>>) => (Authentic(cb') /\ Fresh(cb'))
          /\ ~Fresh(cb') => cb'.code = 400
          /\ (Fresh(cb') /\ ~Authentic(cb')) => cb'.code = 401
          /\ cb'.code \in {400, 401} => UNCHANGED ledgerVars]_vars

\* C15 witness: a body changed after the bank signed it was answered 401 while
\* a transaction it names exists
C15_Witness ==
    /\ cb.code = 401 /\ cb.tampered /\ cb.secret = BankSecret
    /\ \E t \in TxIds : Exists(t) /\ txs[t].status = "PENDING"

\* the step is a withdrawal request answered by create_pending_withdrawal
IsWithdrawalRequest == api' # api

\* C12: create_pending_withdrawal on an account whose balance is below the
\* requested amount fails with InsufficientBalanceError and creates no row,
\* enqueues no job and leaves the balance unchanged.
C12_InsufficientCreateRejected ==
    [][(IsWithdrawalRequest /\ balance[api'.acct] < api'.amount) =>
          /\ api'.err = "InsufficientBalanceError"
          /\ UNCHANGED <<balance, txs, queue, applied>>]_vars

\* C12 witness: a withdrawal above the balance was refused after the balance
\* had been lowered by a completed withdrawal
C12_Witness ==
    /\ api.err = "InsufficientBalanceError"
    /\ balance[api.acct] < api.amount
    /\ balance[api.acct] < OpeningBalance

\* C13: no job ends without a retry while the transaction it was picked up
\* for is still PENDING or PROCESSING: when process() returns, the row is
\* SUCCESS, FAILED or PENDING_REVIEW, whatever the bank answered and whatever
\* exception was raised.
C13_JobEndsSettled ==
    \A w \in Workers :
        (wk[w].pc = "done" /\ Exists(wk[w].tx)) =>
            txs[wk[w].tx].status \in Terminal

\* C17 as stated: no DEPOSIT transaction is ever in status PENDING_REVIEW.
C17_NoDepositInReview ==
    \A t \in TxIds :
        txs[t].type = "DEPOSIT" => txs[t].status # "PENDING_REVIEW"

\* C17 as amended: a transaction of either type becomes PENDING_REVIEW only
\* in the step in which a job of that transaction handles an exception with
\* no retries left (request.retries >= max_retries).
C17_ReviewOnlyAfterMaxRetries ==
    [][\A t \in TxIds :
          (txs'[t].status = "PENDING_REVIEW" /\ txs[t].status # "PENDING_REVIEW") =>
             \E w \in Workers : /\ wk[w].tx = t /\ wk[w].pc = "exc"
                                /\ wk[w].retries >= MaxRetries
                                /\ wk'[w].pc = "done"
                                /\ wk'[w].result = "PENDING_REVIEW"]_vars

\* C17 witness: a deposit was marked for review after its retries ran out
C17_Witness ==
    \E t \in TxIds, w \in Workers :
        /\ txs[t].type = "DEPOSIT" /\ txs[t].status = "PENDING_REVIEW"
        /\ wk[w].tx = t /\ wk[w].pc = "done" /\ wk[w].retries = MaxRetries

----------------------------------------------------------------------------
(* Properties of the circuit breaker *)

\* the step is a call of can_execute
IsProbe == probe'.k # probe.k

\* C14: from OPEN, can_execute returns false and changes nothing while fewer
\* than timeout_seconds have passed since the last recorded failure; once
\* timeout_seconds have passed it returns true and the breaker is HALF_OPEN.
C14_OpenUntilTimeout ==
    [][(IsProbe /\ brk.state = "OPEN") =>
          IF now - brk.last_failure_time < timeout_seconds
          THEN ~probe'.ret /\ brk' = brk
          ELSE probe'.ret /\ brk'.state = "HALF_OPEN"]_vars

\* C14 witness: the breaker left OPEN exactly timeout_seconds after the last
\* recorded failure
C14_Witness ==
    /\ brk.state = "HALF_OPEN" /\ probe.ret
    /\ brk.last_failure_time # NoFailure
    /\ now - brk.last_failure_time = timeout_seconds
    /\ inflight = 1

----------------------------------------------------------------------------
(* Properties of the webhook trigger *)

\* C16: every step that moves a transaction into SUCCESS, FAILED or
\* PENDING_REVIEW inserts exactly one WebhookDelivery row and enqueues one
\* delivery job if the owning user has a webhook URL, and none otherwise;
\* rows are inserted only for transactions whose terminal status is committed.
C16_WebhookOnTerminal ==
    [][\A t \in TxIds :
          /\ (txs'[t].status \in Terminal /\ txs'[t].status # txs[t].status) =>
                hooks'[t] = IF webhook_url[txs'[t].acct]
                            THEN [rows |-> hooks[t].rows + 1, jobs |-> hooks[t].jobs + 1]
                            ELSE hooks[t]
          /\ hooks'[t] # hooks[t] => txs'[t].status \in Terminal]_vars

\* C19: a request that arrived while another request of its key held the
\* PROCESSING sentinel did not invoke the handler and was answered 409 with
\* Retry-After: 5 and the key echoed
C19_ConflictWhileProcessing ==
    \A r \in Reqs :
        req[r].pc = "done" /\ req[r].arrived = "processing" =>
            /\ ~req[r].ranHandler
            /\ req[r].code = 409
            /\ req[r].retryAfter = 5
            /\ req[r].echo = req[r].key

\* C19 as the code has it: such a request did not invoke the handler and its
\* key is echoed; it was answered 409 with Retry-After: 5 unless the record
\* under its key had become COMPLETED by the time it was looked up, and then
\* with the stored 202
C19_ConflictUnlessCompleted ==
    \A r \in Reqs :
        req[r].pc = "done" /\ req[r].arrived = "processing" =>
            /\ ~req[r].ranHandler
            /\ req[r].echo = req[r].key
            /\ \/ req[r].code = 409 /\ req[r].retryAfter = 5
               \/ /\ req[r].code = 202
                  /\ req[r].retryAfter = 0
                  /\ succeeded[req[r].key] >= 1

\* a request answered 409 while the other request of its key is still in its
\* handler
C19_Witness ==
    \E r \in Reqs :
        /\ req[r].pc = "done"
        /\ req[r].arrived = "processing"
        /\ req[r].code = 409
        /\ Running(req[r].key) # {}
        /\ cache[req[r].key].status = "processing"

\* C18: the lease a lock key has left never exceeds 30 seconds, whatever ttl
\* the instances were constructed with and whatever extend was asked for
C18_LeaseAtMost30 ==
    \A k \in LockKeys : lease[k] <= MaxLockTtl

\* C20: the job of a DLQ record is re-enqueued at most once, whatever the
\* number and interleaving of replay_failed_task calls
C20_ReplayedAtMostOnce ==
    \A d \in DlqIds : requeued[d] <= 1

\* C21: every original job id has at most one failed_tasks row, whatever the
\* number and interleaving of handle_failed_task deliveries, and a delivery
\* that found a row added nothing
C21_OneRowPerJob ==
    /\ \A d \in DlqIds : dlq[d].rows <= 1
    /\ \A h \in Deliveries : hf[h].status = "duplicate" => ~hf[h].added

\* two deliveries of one job both passed the lookup; one stored the row and
\* the other was refused by the unique index
C21_Witness ==
    \E g, h \in Deliveries :
        /\ g # h
        /\ hf[g].task = hf[h].task
        /\ hf[g].status = "stored"
        /\ hf[h].status = "error"
        /\ dlq[hf[g].task].rows = 1

\* C22: every change of an account's balance is made by a worker that holds
\* the distributed lock account:<id> of that account
C22_BalanceUnderAccountLock ==
    [][\A a \in Accounts :
          balance'[a] # balance[a] =>
              \E w \in Workers : /\ wk[w].pc = "complete"
                                 /\ txs[wk[w].tx].acct = a
                                 /\ wk[w].locked]_vars

\* the step is worker w handling the exception its attempt raised (and not
\* the loss of the worker process)
IsHandleException(w) ==
    /\ wk[w].pc = "exc"
    /\ wk'[w] # wk[w]
    /\ ~(wk'[w].pc = "idle" /\ faults' # faults)

\* C23: when an attempt raised, with retries left the job is published again
\* with retries + 1 and no row changes; without retries left the row is
\* marked PENDING_REVIEW and the job returns PENDING_REVIEW without being
\* published again.  No job is ever carried with more than max_retries retries.
C23_RetryThenReview ==
    [][\A w \in Workers :
          IsHandleException(w) =>
              /\ wk[w].retries <= MaxRetries
              /\ IF wk[w].retries < MaxRetries
                 THEN /\ [tx |-> wk[w].tx, retries |-> wk[w].retries + 1] \in queue'
                      /\ txs' = txs
                 ELSE /\ txs'[wk[w].tx].status = "PENDING_REVIEW"
                      /\ wk'[w].result = "PENDING_REVIEW"
                      /\ queue' = queue]_vars

\* C24: a job that exhausts its retries and has its transaction marked
\* PENDING_REVIEW is published to transactions.dlq
C24_ExhaustedJobIsDeadLettered ==
    [][\A w \in Workers :
          IsHandleException(w) /\ wk[w].retries >= MaxRetries
          /\ txs'[wk[w].tx].status = "PENDING_REVIEW" =>
              wk[w].tx \in dlq_sent']_vars

\* the step is a call of the bank client
IsBankCall == bank'.n # bank.n

\* C25: a call the breaker rejects reaches no bank, is answered UNAVAILABLE
\* with error_code CIRCUIT_BREAKER_OPEN, and the worker treats it as
\* permanent: the transaction moves to FAILED and the job returns FAILED
C25_RejectedCallIsPermanent ==
    [][IsBankCall /\ ~can_execute(brk, now).ret =>
          /\ ~bank'.called
          /\ bank'.status = "UNAVAILABLE"
          /\ bank'.error_code = "CIRCUIT_BREAKER_OPEN"
          /\ \E w \in Workers :
                /\ wk[w].pc = "bank"
                /\ wk'[w].pc = "done"
                /\ wk'[w].result = "FAILED"
                /\ txs'[wk[w].tx].status = "FAILED"]_vars

\* the bank answered TIMEOUT or UNAVAILABLE in this step
IsTransientAnswer == IsBankCall /\ bank'.status \in {"TIMEOUT", "UNAVAILABLE"}

\* a TIMEOUT or UNAVAILABLE answer raises in the worker that asked and
\* touches no row, balance or webhook delivery
TransientAnswerRaises ==
    IsTransientAnswer =>
        /\ \E w \in Workers : /\ wk[w].pc = "bank"
                              /\ wk'[w].pc = "exc"
                              /\ wk'[w].err = "transient"
                              /\ txs[wk[w].tx].status = "PROCESSING"
        /\ txs' = txs
        /\ balance' = balance
        /\ applied' = applied
        /\ hooks' = hooks

\* C26: a TIMEOUT or UNAVAILABLE answer raises, the job is retried, the
\* transaction stays PROCESSING, no completion or failure is invoked and the
\* balance is unchanged
C26_TransientIsRetried ==
    [][/\ TransientAnswerRaises
       /\ \A w \in Workers :
             IsHandleException(w) /\ wk[w].err = "transient" =>
                 /\ [tx |-> wk[w].tx, retries |-> wk[w].retries + 1] \in queue'
                 /\ txs' = txs
                 /\ balance' = balance]_vars

\* C26 as the code has it: the job is retried and the transaction stays
\* PROCESSING while retries are left; on the attempt with retries =
\* max_retries the job returns PENDING_REVIEW and is not published again; in
\* both cases the balance, the applied amounts and the deliveries are untouched
C26_TransientRetriedWhileRetriesLeft ==
    [][/\ TransientAnswerRaises
       /\ \A w \in Workers :
             IsHandleException(w) /\ wk[w].err = "transient" =>
                 /\ IF wk[w].retries < MaxRetries
                    THEN /\ [tx |-> wk[w].tx, retries |-> wk[w].retries + 1] \in queue'
                         /\ txs' = txs
                    ELSE /\ wk'[w].result = "PENDING_REVIEW"
                         /\ queue' = queue
                 /\ balance' = balance
                 /\ applied' = applied
                 /\ hooks' = hooks]_vars

\* the bank answered TIMEOUT and the job is back on the queue with one more
\* retry, its transaction still PROCESSING
C26_Witness ==
    /\ bank.status = "TIMEOUT"
    /\ \E m \in queue : m.retries = 1 /\ txs[m.tx].status = "PROCESSING"
    /\ wk[1].pc = "idle"

\* the bank answered with a business failure in this step
IsPermanentAnswer == IsBankCall /\ bank'.status \in {"FAILED", "INSUFFICIENT_FUNDS"}

\* C27: on a FAILED or INSUFFICIENT_FUNDS answer the transaction moves to
\* FAILED, the balance is unchanged, and the job returns FAILED and is not
\* retried
C27_PermanentFailsOnce ==
    [][IsPermanentAnswer =>
          /\ balance' = balance
          /\ \E w \in Workers :
                /\ wk[w].pc = "bank"
                /\ txs'[wk[w].tx].status = "FAILED"
                /\ wk'[w].pc = "done"
                /\ wk'[w].result = "FAILED"]_vars

\* the step is a call of record_success or record_failure
IsRecord == inflight' = inflight - 1

\* C28: in CLOSED a recorded failure adds one to failure_count and stamps
\* last_failure_time, and the breaker opens exactly when the count reaches
\* failure_threshold; a recorded success puts failure_count back to 0, so a
\* CLOSED breaker never carries failure_threshold failures
C28_ClosedCountsFailures ==
    [][/\ brk.state = "CLOSED" => brk.failure_count < failure_threshold
       /\ (IsRecord /\ brk.state = "CLOSED") =>
             IF probe'.rec = "failure"
             THEN /\ brk'.failure_count = brk.failure_count + 1
                  /\ brk'.last_failure_time = now
                  /\ brk'.state = IF brk'.failure_count = failure_threshold
                                  THEN "OPEN" ELSE "CLOSED"
             ELSE /\ brk'.failure_count = 0
                  /\ brk'.state = "CLOSED"]_vars

\* the breaker has just been opened by the failure that brought
\* failure_count to failure_threshold, after time had passed
C28_Witness ==
    /\ brk.state = "OPEN"
    /\ brk.failure_count = failure_threshold
    /\ brk.last_failure_time = now
    /\ probe.rec = "failure"
    /\ now > 0

\* C29: in HALF_OPEN a recorded success adds one to success_count and the
\* breaker closes, both counters 0, exactly when the count reaches
\* success_threshold; a recorded failure opens it with success_count 0
C29_HalfOpenProbes ==
    [][(IsRecord /\ brk.state = "HALF_OPEN") =>
          IF probe'.rec = "success"
          THEN IF brk.success_count + 1 = success_threshold
               THEN /\ brk'.state = "CLOSED"
                    /\ brk'.failure_count = 0
                    /\ brk'.success_count = 0
               ELSE /\ brk'.state = "HALF_OPEN"
                    /\ brk'.success_count = brk.success_count + 1
                    /\ brk'.success_count < success_threshold
          ELSE /\ brk'.state = "OPEN"
               /\ brk'.success_count = 0
               /\ brk'.last_failure_time = now]_vars

\* the breaker has closed again after its second success in HALF_OPEN
C29_Witness ==
    /\ brk.state = "CLOSED"
    /\ brk.last_failure_time # NoFailure
    /\ now - brk.last_failure_time >= timeout_seconds
    /\ brk.failure_count = 0
    /\ brk.success_count = 0
    /\ probe.rec = "success"

\* C30: a bank call answered with a business failure (INSUFFICIENT_FUNDS or
\* FAILED) leaves the breaker's state, failure_count, success_count and
\* last_failure_time unchanged; TIMEOUT, UNAVAILABLE and an exception of an
\* admitted call record a failure
C30_BusinessFailureLeavesBreaker ==
    [][IsBankCall =>
          /\ bank'.status \in {"FAILED", "INSUFFICIENT_FUNDS"} => brk' = brk
          /\ bank'.called /\ bank'.status \in {"TIMEOUT", "UNAVAILABLE", "RAISE"} =>
                brk'.last_failure_time = now /\ brk' # brk]_vars

\* C30 as the code has it: the business failure records nothing, so the
\* breaker is what the admission by can_execute left: unchanged, or moved
\* from OPEN to HALF_OPEN with both counters 0 when the call was the probe
\* after the timeout
C30_BusinessFailureRecordsNothing ==
    [][IsBankCall =>
          /\ bank'.status \in {"FAILED", "INSUFFICIENT_FUNDS"} =>
                /\ brk' = can_execute(brk, now).brk
                /\ brk'.last_failure_time = brk.last_failure_time
                /\ brk' = brk \/ (brk.state = "OPEN" /\ brk'.state = "HALF_OPEN")
          /\ bank'.called /\ bank'.status \in {"TIMEOUT", "UNAVAILABLE", "RAISE"} =>
                brk'.last_failure_time = now /\ brk' # brk]_vars

\* a call answered INSUFFICIENT_FUNDS on a CLOSED breaker that had counted
\* failures before: the count is still there
C30_Witness ==
    /\ bank.status = "INSUFFICIENT_FUNDS"
    /\ bank.called
    /\ brk.state = "CLOSED"
    /\ brk.failure_count >= 2
    /\ \E t \in TxIds : txs[t].status = "FAILED"

\* a bank call made for a job of the type that recorded a failure
IsFailedCallOf(type) ==
    /\ IsBankCall
    /\ \E w \in Workers : wk[w].pc = "bank" /\ txs[wk[w].tx].type = type
    /\ bank'.called
    /\ bank'.status \in {"TIMEOUT", "UNAVAILABLE", "RAISE"}

\* C31: one breaker per kind of bank call: a failure recorded for a deposit
\* call leaves the admission of withdrawal calls as it was, and a failure
\* recorded for a withdrawal call leaves the admission of deposit calls as
\* it was
C31_BreakerPerDirection ==
    [][/\ IsFailedCallOf("DEPOSIT") =>
             can_execute(breaker_of("WITHDRAWAL")', now').ret
                = can_execute(breaker_of("WITHDRAWAL"), now).ret
       /\ IsFailedCallOf("WITHDRAWAL") =>
             can_execute(breaker_of("DEPOSIT")', now').ret
                = can_execute(breaker_of("DEPOSIT"), now).ret]_vars

\* C32: HALF_OPEN admits a limited number of probes: with success_threshold
\* admitted calls still unrecorded, a can_execute asked in HALF_OPEN is
\* refused
C32_HalfOpenLimitsProbes ==
    [][/\ brk.state = "HALF_OPEN"
       /\ probe'.k # probe.k
       /\ inflight >= success_threshold
       => ~probe'.ret /\ inflight' = inflight]_vars

\* request r's handler ended in this step
HandlerEnded(r) == req[r].pc \in {"handler", "enqueue"} /\ req'[r].pc = "done"

C38_CompletedRecordStays ==
    [][\A k \in Keys :
          cache[k].status = "completed" /\ cache'[k] # cache[k] =>
              /\ req' = req
              /\ cache'[k] = NoEntry
              /\ expired24'[k]]_vars

----------------------------------------------------------------------------
(* Properties of the webhook delivery task *)

\* the step is the POST of an attempt of delivery d and what follows it
IsPost(d) == wh[d].pc = "post" /\ wh'[d].pc # "post"

\* the answers the spec has retried: 5xx, 408, 429, network error or timeout
RetriableAnswers == {a \in PostAnswers : (500 <= a /\ a < 600) \/ a \in {408, 429, NetworkError}}

\* C34: an attempt answered 5xx, 408 or 429, or ended by a network error or
\* timeout, raises; while the job has retries left (request.retries <
\* max_retries = 5) it is published again and the delivery is not FAILED
C34_TransientAnswerIsRetried ==
    [][\A d \in WebhookIds :
          IsPost(d) /\ wh'[d].answer \in RetriableAnswers =>
              /\ wh'[d].state \in {"RETRY", "FAILURE"}
              /\ wh[d].retries < WEBHOOK_MAX_RETRIES =>
                    /\ wh'[d].state = "RETRY"
                    /\ wh'[d].pc = "queued"
                    /\ wh'[d].retries = wh[d].retries + 1
                    /\ wh'[d].status # "FAILED"]_vars

\* C35: an attempt adds exactly one to attempt_count and sets SENDING before
\* its POST; a 2xx answer stores SUCCESS and a 4xx answer other than 408 and
\* 429 stores FAILED, in both cases the task returns without raising, and a
\* job that ended makes no further attempt
C35_AttemptThenSuccessOrPermanentFailure ==
    [][\A d \in WebhookIds :
          /\ wh[d].pc = "queued" /\ wh'[d] # wh[d] =>
                /\ wh'[d].attempt_count = wh[d].attempt_count + 1
                /\ wh'[d].status = "SENDING"
                /\ wh'[d].pc = "post"
          /\ wh[d].pc = "post" => wh[d].status = "SENDING"
          /\ IsPost(d) /\ 200 <= wh'[d].answer /\ wh'[d].answer < 300 =>
                /\ wh'[d].status = "SUCCESS"
                /\ wh'[d].state = "SUCCESS" /\ wh'[d].pc = "done"
                /\ wh'[d].attempt_count = wh[d].attempt_count
          /\ IsPost(d) /\ 400 <= wh'[d].answer /\ wh'[d].answer < 500
                       /\ wh'[d].answer \notin {408, 429} =>
                /\ wh'[d].status = "FAILED"
                /\ wh'[d].state = "SUCCESS" /\ wh'[d].pc = "done"
                /\ wh'[d].attempt_count = wh[d].attempt_count
          /\ wh[d].pc = "done" => wh'[d] = wh[d]]_vars

\* one delivery ended FAILED on a 404 at its first attempt, another ended
\* SUCCESS on a 200 after a retried attempt
C35_Witness ==
    \E d, e \in WebhookIds :
        /\ wh[d].pc = "done" /\ wh[d].answer = 404 /\ wh[d].status = "FAILED"
        /\ wh[d].attempt_count = 1 /\ wh[d].retries = 0
        /\ wh[e].pc = "done" /\ wh[e].answer = 200 /\ wh[e].status = "SUCCESS"
        /\ wh[e].attempt_count = 2 /\ wh[e].retries = 1

\* the attempt ended in a transient failure: a 5xx answer or a network error
IsTransientFailure(d) ==
    IsPost(d) /\ (wh'[d].answer = NetworkError \/ (500 <= wh'[d].answer /\ wh'[d].answer < 600))

\* C36: a delivery whose attempts fail transiently is set to FAILED exactly
\* when its last permitted retry has failed, that is when the job ends in
\* FAILURE; a DLQ message for the job is then published to webhooks.dlq, and
\* no attempt runs on a delivery that is FAILED
C36_FailedOnExhaustionThenDlq ==
    [][\A d \in WebhookIds :
          /\ IsTransientFailure(d) =>
                /\ wh'[d].status = "FAILED" <=> wh'[d].state = "FAILURE"
                /\ wh'[d].state = "FAILURE" =>
                      wh'[d].pc = "done" /\ wh'[d].dlq_queue = "webhooks.dlq"
          /\ wh[d].status = "FAILED" => wh'[d] = wh[d]]_vars

\* C39: attempt_count never exceeds max_attempts, and a delivery that is
\* SUCCESS or FAILED is never set back to SENDING or PENDING
C39_AttemptsBoundedAndTerminalStays ==
    /\ [](\A d \in WebhookIds : wh[d].attempt_count <= max_attempts)
    /\ [][\A d \in WebhookIds :
             wh[d].status \in {"SUCCESS", "FAILED"} =>
                 wh'[d].status \notin {"SENDING", "PENDING"}]_vars

\* C37: a valid callback for a transaction that is already SUCCESS or FAILED
\* (completed by the worker or by an earlier callback) changes neither its
\* row nor the balance: the amount is applied to a transaction at most once
\* and a terminal status is not overwritten
C37_CallbackIsIdempotent ==
    [][IsCallback =>
          \A t \in TxIds :
              txs[t].status \in Terminal =>
                  /\ txs'[t] = txs[t]
                  /\ applied'[t] = applied[t]
                  /\ (\A u \in TxIds : u # t => txs'[u] = txs[u]) =>
                        balance'[txs[t].acct] = balance[txs[t].acct]]_vars

\* C40: in every reachable state of the breaker, whatever the interleaving
\* of can_execute, record_success and record_failure of concurrent callers:
\* CLOSED has failure_count < failure_threshold, HALF_OPEN has success_count
\* < success_threshold, OPEN has last_failure_time set, and success_count is
\* 0 outside HALF_OPEN
C40_BreakerInvariant ==
    /\ brk.state \in CircuitState
    /\ brk.state = "CLOSED" => brk.failure_count < failure_threshold
    /\ brk.state = "HALF_OPEN" => brk.success_count < success_threshold
    /\ brk.state = "OPEN" => brk.last_failure_time # NoFailure
    /\ brk.state # "HALF_OPEN" => brk.success_count = 0

\* a HALF_OPEN breaker that counted one success while two admitted calls are
\* still to record their outcome
C40_Witness ==
    /\ brk.state = "HALF_OPEN"
    /\ brk.success_count = 1
    /\ inflight >= 2
    /\ probe.rec = "success"

====
